---- MODULE Spec2Model ----
(***************************************************************************)
(* Strategy runtime registry of the candle monitor (App component):        *)
(* latestStrategiesRef is the authoritative map from strategy id to        *)
(* {config, candles, positionState, tradeStats, lastPrice}.  Every handler *)
(* of the component (realtime candle, config update, add, remove, manual   *)
(* order, completion of a historical fetch) is one action.                 *)
(*                                                                         *)
(* services/strategyEngine and constants are not part of the sources at    *)
(* hand; evaluateStrategy and DEFAULT_CONFIG follow the written design     *)
(* (sections 3 and 4.2).                                                   *)
(*                                                                         *)
(* The server process (server/index.ts) keeps one StrategyRunner per       *)
(* strategy and saves their snapshots; its steps are the actions of        *)
(* ServerSpec.                                                             *)
(***************************************************************************)
EXTENDS Integers, Sequences, FiniteSets, TLC

\* ------------------------------------------------------------------ bounds
\* Stand-in for the window cap of 550 candles (slice(-550)).
WindowCap == 2
\* Stand-in for the REST limit of 499 candles of one historical fetch.
BackfillLimit == 1
\* Candle open times are 1..MaxTime.
MaxTime == 2
\* Strategies added after the default one get the ids 1..MaxAdds.
MaxAdds == 1
\* Calendar days are 1..MaxDay.
MaxDay == 2
\* dailyTradeCount is not driven beyond this by manual orders.
MaxCount == 2
\* Handlers run in one behaviour.
MaxEvents == 3
\* Steps of the server process in one behaviour.
MaxServerEvents == 5
\* Stand-in for the 500 log entries the server keeps (slice(0, 500)).
LogCap == 2
\* Candles of a window given to the indicator engine.
IndicatorWindow == 5
\* Closes of those candles are 1..MaxClose.
MaxClose == 5
\* EMA and MACD periods are 1..MaxPeriod.
MaxPeriod == 3

\* --------------------------------------------------------------- constants
Symbols == {"BTCUSDT", "ETHUSDT"}
Intervals == {"1m", "5m"}
Prices == {100, 105, 110}
Sigs == {"NONE", "LONG", "SHORT"}

Ids == 0..MaxAdds

\* tp_level of a manual order's payload (line 335; the literal of the source
\* is a Chinese phrase for "manual operation", written here in pinyin).
ManualLabel == "ShouDongCaoZuo"

\* String.prototype.toLowerCase on the symbols in use.
toLowerCase(s) ==
  CASE s = "BTCUSDT" -> "btcusdt"
    [] s = "ETHUSDT" -> "ethusdt"
    [] OTHER -> s

\* `${symbol.toLowerCase()}@kline_${interval}`
targetStream(config) == <<toLowerCase(config.symbol), "@kline_", config.interval>>

\* ------------------------------------------------------- quantity arithmetic
\* Quantities are exact fractions [n, d] with d > 0, in lowest terms.
RECURSIVE GCD(_, _)
GCD(a, b) == IF b = 0 THEN a ELSE GCD(b, a % b)

Frac(n, d) ==
  IF n = 0 THEN [n |-> 0, d |-> 1]
  ELSE LET g == GCD(n, d) IN [n |-> n \div g, d |-> d \div g]

Zero == [n |-> 0, d |-> 1]
FracLeq(a, b) == a.n * b.d <= b.n * a.d
FracSub(a, b) == Frac(a.n * b.d - b.n * a.d, a.d * b.d)
FracPct(a, pct) == Frac(a.n * pct, a.d * 100)
FracMin(a, b) == IF FracLeq(a, b) THEN a ELSE b

\* ------------------------------------------------------------ initial data
INITIAL_POS_STATE ==
  [direction |-> "FLAT",
   initialQuantity |-> Zero,
   remainingQuantity |-> Zero,
   entryPrice |-> 0,
   highestPrice |-> 0,
   lowestPrice |-> 0,
   openTime |-> 0,
   tpLevelsHit |-> <<>>,
   slLevelsHit |-> <<>>]

\* lastTradeDate is the date on which the module was loaded (day 1).
INITIAL_STATS == [dailyTradeCount |-> 0, lastTradeDate |-> 1]

\* The daily cap of the default configuration is the smallest one that
\* admits a trade; webhookUrl is a configured destination.
DEFAULT_CONFIG ==
  [id |-> 0, symbol |-> "BTCUSDT", interval |-> "1m",
   tradeAmount |-> 1000, maxDailyTrades |-> 1, webhookUrl |-> "hook"]

\* Per-level thresholds of the configuration: percent move from entryPrice
\* and percent of initialQuantity closed.
tpLevels == << [id |-> "tp1", pct |-> 5, qtyPct |-> 50],
               [id |-> "tp2", pct |-> 10, qtyPct |-> 50] >>
slLevels == << [id |-> "sl1", pct |-> 5, qtyPct |-> 100] >>
LevelIds == {"tp1", "tp2", "sl1"}

NewRuntime(config) ==
  [config |-> config,
   candles |-> <<>>,
   positionState |-> INITIAL_POS_STATE,
   tradeStats |-> INITIAL_STATS,
   lastPrice |-> 0]

VARIABLES
  latestStrategiesRef,  \* id -> StrategyRuntime, the registry
  activeStrategyId,     \* the strategy the control panel acts on
  nextId,               \* ids handed out so far (fresh random ids)
  inflight,             \* historical fetches requested and not yet answered
  today,                \* the local calendar day
  ev,                   \* the handler that ran last, with its arguments
                        \* (repeated: the same candle as the handler before)
  out,                  \* id -> actions handed to sendWebhook by that handler
  adv,                  \* id -> merges/evaluations/writes done by that handler
  levelFires,           \* id -> level id -> exit actions since the last entry
  webhooks,             \* fetch() calls of sendWebhook not yet settled
  sent,                 \* id -> for each sendWebhook call of that handler:
                        \* did the registry hold the transition's state?
  nEvents,              \* handlers run so far
  \* the server process (server/index.ts)
  up,                   \* the process is running
  strategies,           \* id -> runtime of the StrategyRunner
  logs,                 \* the log entries, newest first
  store,                \* what FileStore holds under 'strategies' and 'logs'
  sev,                  \* the server step taken last
  nServer,              \* server steps taken so far
  \* the indicator engine (services/indicatorService)
  series,               \* the window of candles given to the engine
  calc                  \* the function called last, its arguments and result

appVars == <<latestStrategiesRef, activeStrategyId, nextId, inflight, today,
             ev, out, adv, levelFires, webhooks, sent, nEvents>>
serverVars == <<up, strategies, logs, store, sev, nServer>>
indVars == <<series, calc>>
vars == <<appVars, serverVars, indVars>>

\* ------------------------------------------------------------------ inputs
\* A candle as parseSocketMessage builds it: time = k.t, close = k.c,
\* isClosed = k.x (open, high, low and volume take no part in the merge).
Candles == [time : 1..MaxTime, close : Prices, isClosed : BOOLEAN]

\* What fetchHistoricalCandles resolves to: at most BackfillLimit klines in
\* the order of the exchange, every one marked isClosed: true; [] when the
\* request fails.
HistoricalData ==
  {s \in UNION {[1..n -> {c \in Candles : c.isClosed}] : n \in 0..BackfillLimit} :
     \A i \in 1..Len(s) : \A j \in 1..Len(s) : i < j => s[i].time < s[j].time}

\* Partial<StrategyConfig> as the control panel sends it; the symbol is a
\* text field and may be sent empty.
ConfigUpdates ==
  {[symbol |-> s] : s \in Symbols \cup {""}} \cup {[interval |-> i] : i \in Intervals}
  \cup {[symbol |-> s, interval |-> i] : s \in Symbols, i \in Intervals}
  \cup {[maxDailyTrades |-> 2]}

\* ---------------------------------------------------------------- helpers
Max(a, b) == IF a >= b THEN a ELSE b
Min(a, b) == IF a <= b THEN a ELSE b

InSeq(x, s) == \E k \in 1..Len(s) : s[k] = x

\* Object.values / Object.keys order of the registry: insertion order, which
\* for the fresh ids is ascending.
RECURSIVE SortedIds(_)
SortedIds(S) ==
  IF S = {} THEN <<>>
  ELSE LET m == CHOOSE x \in S : \A y \in S : x <= y
       IN <<m>> \o SortedIds(S \ {m})

\* before: length of the window the merge started from; replaced: the merge
\* found the incoming time at the tail of that window.
NoAdvance == [merges |-> 0, evals |-> 0, writes |-> 0, before |-> 0, replaced |-> FALSE]
NoFires == [l \in LevelIds |-> 0]

\* ----------------------------------------------- position lifecycle (4.2)
Crossed(kind, direction, entryPrice, price, pct) ==
  IF (kind = "TP") = (direction = "LONG")
  THEN price * 100 >= entryPrice * (100 + pct)
  ELSE price * 100 <= entryPrice * (100 - pct)

\* One pass over the configured levels of one kind: a level not yet in the
\* hit list whose threshold the price has passed is marked hit, reduces
\* remainingQuantity by its share of initialQuantity and emits one action.
levelStep(lv, kind, pos, acts, price) ==
  LET hit == IF kind = "TP" THEN pos.tpLevelsHit ELSE pos.slLevelsHit
      qty == FracMin(pos.remainingQuantity, FracPct(pos.initialQuantity, lv.qtyPct))
      act == [action |-> IF pos.direction = "LONG" THEN "sell" ELSE "buy_to_cover",
              position |-> "flat",
              strategy_name |-> "Strategy",
              tp_level |-> lv.id,
              execution_price |-> price,
              execution_quantity |-> qty]
      pos2 == IF kind = "TP"
              THEN [pos EXCEPT !.tpLevelsHit = Append(@, lv.id),
                               !.remainingQuantity = FracSub(@, qty)]
              ELSE [pos EXCEPT !.slLevelsHit = Append(@, lv.id),
                               !.remainingQuantity = FracSub(@, qty)]
  IN IF /\ ~InSeq(lv.id, hit)
        /\ pos.remainingQuantity # Zero
        /\ Crossed(kind, pos.direction, pos.entryPrice, price, lv.pct)
     THEN [pos |-> pos2, acts |-> Append(acts, act)]
     ELSE [pos |-> pos, acts |-> acts]

\* The levels in configured order (each step is evaluated once, on the
\* result of the step before).
RECURSIVE hitLevels(_, _, _, _, _)
hitLevels(levels, i, kind, st, price) ==
  IF i > Len(levels) THEN st
  ELSE CHOOSE r \in {hitLevels(levels, i + 1, kind, next, price) :
                       next \in {levelStep(levels[i], kind, st.pos, st.acts, price)}} : TRUE

\* (variant: the counter is cleared by every evaluation)
rolledStats_Always(tradeStats, date) ==
  [dailyTradeCount |-> 0, lastTradeDate |-> date]

\* Trade statistics at the start of an evaluation: dailyTradeCount starts
\* from 0 on a date other than lastTradeDate.
rolledStats(tradeStats, date) ==
  IF date # tradeStats.lastTradeDate
  THEN [dailyTradeCount |-> 0, lastTradeDate |-> date]
  ELSE tradeStats

\* (variant: entries are not capped)
entryAllowed_NoCap(stats, config) == TRUE

\* The daily cap on entries.
entryAllowed(stats, config) == stats.dailyTradeCount < config.maxDailyTrades

\* evaluateStrategy(candles, config, positionState, tradeStats): sig is the
\* outcome of the configured entry condition on the enriched window, date
\* the local calendar day of the evaluation.
evaluateStrategy(candles, config, positionState, tradeStats, sig, date) ==
  LET price == candles[Len(candles)].close
      stats == rolledStats(tradeStats, date)
  IN
  IF positionState.direction = "FLAT" THEN
    IF sig # "NONE" /\ entryAllowed(stats, config) THEN
      LET quantity == IF price > 0 THEN Frac(config.tradeAmount, price) ELSE Zero
      IN [newPositionState |->
            [direction |-> sig,
             initialQuantity |-> quantity,
             remainingQuantity |-> quantity,
             entryPrice |-> price,
             highestPrice |-> price,
             lowestPrice |-> price,
             openTime |-> candles[Len(candles)].time,
             tpLevelsHit |-> <<>>,
             slLevelsHit |-> <<>>],
          newTradeStats |-> [stats EXCEPT !.dailyTradeCount = @ + 1],
          actions |-> << [action |-> IF sig = "LONG" THEN "buy" ELSE "sell",
                          position |-> IF sig = "LONG" THEN "long" ELSE "short",
                          strategy_name |-> "Strategy",
                          tp_level |-> "Entry",
                          execution_price |-> price,
                          execution_quantity |-> quantity] >>]
    ELSE [newPositionState |-> positionState, newTradeStats |-> stats, actions |-> <<>>]
  ELSE
    LET tracked == [positionState EXCEPT !.highestPrice = Max(@, price),
                                         !.lowestPrice = Min(@, price)]
    IN CHOOSE result \in
         {[newPositionState |->
             IF sl.pos.remainingQuantity = Zero THEN INITIAL_POS_STATE ELSE sl.pos,
           newTradeStats |-> stats,
           actions |-> sl.acts] :
            sl \in {hitLevels(slLevels, 1, "SL", tp, price) :
                      tp \in {hitLevels(tpLevels, 1, "TP",
                                        [pos |-> tracked, acts |-> <<>>], price)}}} : TRUE

\* ------------------------------------------------------------- bar window
\* (variant: the window is never cut back)
mergeCandle_NoSlice(candles, newCandle) ==
  LET n == Len(candles)
  IN IF n > 0 /\ candles[n].time = newCandle.time
     THEN [candles EXCEPT ![n] = newCandle]
     ELSE Append(candles, newCandle)

\* Lines 218-226: replace the last candle when the times are equal, push
\* otherwise, then slice(-550).
mergeCandle(candles, newCandle) ==
  LET n == Len(candles)
      updatedCandles ==
        IF n > 0 /\ candles[n].time = newCandle.time
        THEN [candles EXCEPT ![n] = newCandle]
        ELSE Append(candles, newCandle)
      m == Len(updatedCandles)
  IN IF m > WindowCap THEN SubSeq(updatedCandles, m - WindowCap + 1, m)
     ELSE updatedCandles

\* The historical-data effect, first half (lines 156-159): after every
\* change of the strategies state a fetch is started for each runtime whose
\* window is empty; the request keeps the config it was started with.
historicalEffect(ref, requests) ==
  requests \cup
    {[id |-> ref[k].config.id, symbol |-> ref[k].config.symbol,
      interval |-> ref[k].config.interval] :
       k \in {j \in DOMAIN ref : Len(ref[j].candles) = 0 /\ ref[j].config.symbol # ""}}

\* sendWebhook (lines 265-291) for the payloads of one forEach, up to its
\* await: the url is read from the registry and, when set, fetch() is
\* called for each payload; at is the handler that made the call.
sendWebhook(net, payloads, strategyId, ref, at) ==
  LET url == IF strategyId \in DOMAIN ref THEN ref[strategyId].config.webhookUrl ELSE ""
  IN IF url # ""
     THEN net \cup {[id |-> strategyId, tp_level |-> payloads[k].tp_level, at |-> at] :
                      k \in 1..Len(payloads)}
     ELSE net

\* The registry holds positionState and tradeStats for strategy id.
committed(ref, id, positionState, tradeStats) ==
  /\ id \in DOMAIN ref
  /\ ref[id].positionState = positionState
  /\ ref[id].tradeStats = tradeStats

\* (variant: the interval takes no part in the routing)
routed_SymbolOnly(rt, streamName) ==
  toLowerCase(rt.config.symbol) = streamName[1]

\* Lines 213-214: the runtime's stream name against the event's.
routed(rt, streamName) ==
  targetStream(rt.config) = streamName

\* (variant: every action is handed to sendWebhook twice)
sentActions_Twice(result) == result.actions \o result.actions

\* Lines 238-240: result.actions.forEach(a => sendWebhook(a, ...)).
sentActions(result) == result.actions

\* (variant: the evaluated position is left to the asynchronous UI state)
commitRuntime_NoPosition(rt, enriched, newCandle, result) ==
  [rt EXCEPT !.candles = enriched,
             !.lastPrice = newCandle.close,
             !.tradeStats = result.newTradeStats]

\* (variant: the position is stored only when its direction changes)
commitRuntime_OnTransition(rt, enriched, newCandle, result) ==
  [rt EXCEPT !.candles = enriched,
             !.lastPrice = newCandle.close,
             !.positionState =
                IF result.newPositionState.direction # rt.positionState.direction
                THEN result.newPositionState ELSE @,
             !.tradeStats = result.newTradeStats]

\* (variant: the evaluated trade statistics are dropped)
commitRuntime_NoStats(rt, enriched, newCandle, result) ==
  [rt EXCEPT !.candles = enriched,
             !.lastPrice = newCandle.close,
             !.positionState = result.newPositionState]

\* Lines 243-249: the new runtime object.
commitRuntime(rt, enriched, newCandle, result) ==
  [rt EXCEPT !.candles = enriched,
             !.lastPrice = newCandle.close,
             !.positionState = result.newPositionState,
             !.tradeStats = result.newTradeStats]

\* Body of the forEach of processGlobalRealtimeCandle for one runtime
\* (lines 213-254), on the accumulated registry, actions and counters.
processRuntime(acc, rt, streamName, newCandle, sig, date) ==
  IF routed(rt, streamName) THEN
    LET enriched == mergeCandle(rt.candles, newCandle)
        result == CHOOSE r \in {evaluateStrategy(enriched, rt.config, rt.positionState,
                                                 rt.tradeStats, sig, date)} : TRUE
        newRuntime == commitRuntime(rt, enriched, newCandle, result)
        id == rt.config.id
    IN [ref |-> [acc.ref EXCEPT ![id] = newRuntime],
        out |-> [acc.out EXCEPT ![id] = @ \o sentActions(result)],
        net |-> sendWebhook(acc.net, sentActions(result), id, acc.ref, nEvents),
        sent |-> [acc.sent EXCEPT ![id] =
                    @ \o [k \in 1..Len(sentActions(result)) |->
                            committed(acc.ref, id, result.newPositionState,
                                      result.newTradeStats)]],
        adv |-> [acc.adv EXCEPT ![id] =
                   [merges |-> @.merges + 1,
                    evals |-> @.evals + 1,
                    writes |-> @.writes + 1,
                    before |-> Len(rt.candles),
                    replaced |-> /\ Len(rt.candles) > 0
                                 /\ rt.candles[Len(rt.candles)].time = newCandle.time]]]
  ELSE acc

\* Object.values(currentRuntimes).forEach(...): the runtimes are those the
\* registry held when the handler started.
RECURSIVE processLoop(_, _, _, _, _, _, _)
processLoop(order, i, acc, currentRuntimes, streamName, newCandle, sigs) ==
  IF i > Len(order) THEN acc
  ELSE CHOOSE r \in
         {processLoop(order, i + 1, next, currentRuntimes, streamName, newCandle, sigs) :
            next \in {processRuntime(acc, currentRuntimes[order[i]], streamName,
                                     newCandle, sigs[order[i]], today)}} : TRUE

\* Exit actions per level since the position was opened.
RECURSIVE countFires(_, _, _)
countFires(fires, acts, i) ==
  IF i > Len(acts) THEN fires
  ELSE IF acts[i].tp_level \in LevelIds
       THEN countFires([fires EXCEPT ![acts[i].tp_level] = @ + 1], acts, i + 1)
       ELSE countFires(NoFires, acts, i + 1)

NoOut == [i \in Ids |-> <<>>]
NoAdv == [i \in Ids |-> NoAdvance]
NoSent == [i \in Ids |-> <<>>]

\* ------------------------------------------------------- server process
\* StrategyRunner and FileStore are not part of the sources at hand: the
\* runner follows sections 3, 4.2 and 4.5 of the written design, the store
\* gives back what was saved.

\* new StrategyRunner(config, onUpdate, onLog): a fresh runtime.
newRunner(config) ==
  [config |-> config,
   positionState |-> INITIAL_POS_STATE,
   tradeStats |-> INITIAL_STATS,
   lastPrice |-> 0]

\* runner.restoreState(positionState, tradeStats)
restoreState(runner, positionState, tradeStats) ==
  [runner EXCEPT !.positionState = positionState, !.tradeStats = tradeStats]

\* runner.getSnapshot(): {config, positionState, tradeStats}
getSnapshot(runner) ==
  [config |-> runner.config,
   positionState |-> runner.positionState,
   tradeStats |-> runner.tradeStats]

\* (variant: only the config of a snapshot is used)
restoredRunner_ConfigOnly(snapshot) == newRunner(snapshot.config)

\* initializeSystem, lines 50-68: the runner of one saved snapshot.
restoredRunner(snapshot) ==
  IF "positionState" \in DOMAIN snapshot /\ "tradeStats" \in DOMAIN snapshot
  THEN restoreState(newRunner(snapshot.config), snapshot.positionState, snapshot.tradeStats)
  ELSE newRunner(snapshot.config)

\* saveSystemState, lines 29-33: the snapshots of all runners and the logs.
saveSystemState(runners, lg) ==
  LET order == SortedIds(DOMAIN runners)
  IN [strategies |-> [k \in 1..Len(order) |-> getSnapshot(runners[order[k]])],
      logs |-> lg]

\* addLog, lines 109-112, for the logs of one step, oldest first.
RECURSIVE addLog(_, _, _)
addLog(lg, new, i) ==
  IF i > Len(new) THEN lg
  ELSE addLog(SubSeq(<<new[i]>> \o lg, 1, Min(Len(lg) + 1, LogCap)), new, i + 1)

\* The log entry of one action of a runner.
logOf(id, a) == [strategyId |-> id, tp_level |-> a.tp_level, action |-> a.action]

\* Before the first start: nothing on disk, nothing in memory.
ServerInit ==
  /\ up = FALSE
  /\ strategies = << >>
  /\ logs = <<>>
  /\ store = [strategies |-> <<>>, logs |-> <<>>]
  /\ sev = [op |-> "none"]
  /\ nServer = 0

\* ------------------------------------------------------ indicator engine
\* services/indicatorService (lines 150-288 of src/components/LogPanel.tsx).
\* A JavaScript number is an exact fraction [n, d] with d > 0, or NaN.
NaN == [n |-> 0, d |-> 0]
isNaN(x) == x.d = 0
Num(i) == [n |-> i, d |-> 1]
FracAdd(a, b) == Frac(a.n * b.d + b.n * a.d, a.d * b.d)
FracMul(a, b) == Frac(a.n * b.n, a.d * b.d)
\* +, -, * and division by a positive integer; NaN is absorbing.
numAdd(a, b) == IF isNaN(a) \/ isNaN(b) THEN NaN ELSE FracAdd(a, b)
numSub(a, b) == IF isNaN(a) \/ isNaN(b) THEN NaN ELSE FracSub(a, b)
numMul(a, b) == IF isNaN(a) \/ isNaN(b) THEN NaN ELSE FracMul(a, b)
numDiv(a, p) == IF isNaN(a) THEN NaN ELSE Frac(a.n, a.d * p)

\* new Array(n).fill(NaN)
filledNaN(n) == [i \in 1..n |-> NaN]

\* const k = 2 / (period + 1)
smoothing(period) == Frac(2, period + 1)

\* (price * k) + (prev * (1 - k))
smoothed(price, prev, k) == numAdd(numMul(price, k), numMul(prev, numSub(Num(1), k)))

\* Lines 162-165: the sum of the closes of the first n candles.
RECURSIVE initialSum(_, _)
initialSum(candles, n) ==
  IF n = 0 THEN Zero ELSE numAdd(initialSum(candles, n - 1), Num(candles[n].close))

\* (variant: the seed is the close of candle number period)
initialEMA_LastClose(candles, period) == Num(candles[period].close)

\* Line 167: the seed, the simple average of the first period closes.
initialEMA(candles, period) == numDiv(initialSum(candles, period), period)

\* Lines 177-189: the loop over the candles after the seed; i is the
\* position of the candle (the source counts from 0, the model from 1).
RECURSIVE emaRest(_, _, _, _)
emaRest(candles, k, emaArray, i) ==
  IF i > Len(candles) THEN emaArray
  ELSE LET price == Num(candles[i].close)
           prevEMA == emaArray[i - 1]
       IN emaRest(candles, k,
                  Append(emaArray, IF isNaN(prevEMA) THEN price
                                   ELSE smoothed(price, prevEMA, k)),
                  i + 1)

\* (variant: a window shorter than the period yields zeros)
calculateEMA_ZeroFill(candles, period) ==
  IF Len(candles) < period
  THEN [i \in 1..Len(candles) |-> Zero]
  ELSE emaRest(candles, smoothing(period),
               [i \in 1..period |-> IF i < period THEN NaN
                                    ELSE initialEMA(candles, period)],
               period + 1)

\* calculateEMA(candles, period), lines 153-192.
calculateEMA(candles, period) ==
  IF Len(candles) < period
  THEN filledNaN(Len(candles))
  ELSE emaRest(candles, smoothing(period),
               [i \in 1..period |-> IF i < period THEN NaN
                                    ELSE initialEMA(candles, period)],
               period + 1)

\* Lines 217-223: the first index (counted from 0) of a value that is not
\* NaN, -1 when there is none.
firstValidIdx(values) ==
  IF \E i \in 1..Len(values) : ~isNaN(values[i])
  THEN (CHOOSE i \in 1..Len(values) :
          /\ ~isNaN(values[i])
          /\ \A j \in 1..(i - 1) : isNaN(values[j])) - 1
  ELSE -1

\* Lines 233-234: values[first] + ... + values[first + n - 1], counted from 0.
RECURSIVE sumFrom(_, _, _)
sumFrom(values, first, n) ==
  IF n = 0 THEN Zero ELSE numAdd(sumFrom(values, first, n - 1), values[first + n])

\* Lines 240-248: the loop after the seed of the signal.
RECURSIVE signalRest(_, _, _, _)
signalRest(values, k, result, i) ==
  IF i > Len(values) THEN result
  ELSE LET val == values[i]
           prev == result[i - 1]
       IN signalRest(values, k,
                     Append(result, IF isNaN(val) THEN NaN ELSE smoothed(val, prev, k)),
                     i + 1)

\* Lines 251-256: NaN in front while the result is shorter than n, then the
\* last n entries.
padded(result, n) ==
  LET full == IF Len(result) < n THEN filledNaN(n - Len(result)) \o result ELSE result
  IN SubSeq(full, Len(full) - n + 1, Len(full))

\* calculateEMAFromValues(values, period), lines 212-257.
calculateEMAFromValues(values, period) ==
  LET first == firstValidIdx(values)
  IN IF first = -1 \/ Len(values) - first < period
     THEN filledNaN(Len(values))
     ELSE padded(signalRest(values, smoothing(period),
                            [i \in 1..(first + period) |->
                               IF i < first + period THEN NaN
                               ELSE numDiv(sumFrom(values, first, period), period)],
                            first + period + 1),
                 Len(values))

\* (variant: an undefined signal counts as 0)
histogram_SignalAsZero(macdLine, macdSignalLine) ==
  [i \in 1..Len(macdLine) |->
     numSub(macdLine[i], IF isNaN(macdSignalLine[i]) THEN Zero ELSE macdSignalLine[i])]

\* Line 260: macdLine.map((m, i) => m - macdSignalLine[i])
histogram(macdLine, macdSignalLine) ==
  [i \in 1..Len(macdLine) |-> numSub(macdLine[i], macdSignalLine[i])]

\* calculateMACD(candles, fast, slow, signal), lines 195-263.
calculateMACD(candles, fast, slow, signal) ==
  LET emaFast == calculateEMA(candles, fast)
      emaSlow == calculateEMA(candles, slow)
      macdLine == [i \in 1..Len(candles) |->
                     IF isNaN(emaFast[i]) \/ isNaN(emaSlow[i]) THEN NaN
                     ELSE numSub(emaFast[i], emaSlow[i])]
      macdSignalLine == calculateEMAFromValues(macdLine, signal)
  IN [macdLine |-> macdLine,
      macdSignalLine |-> macdSignalLine,
      macdHist |-> histogram(macdLine, macdSignalLine)]

\* The value of a frame field that is not there.
undefined == [undefined |-> TRUE]

\* isNaN(x) ? undefined : x
orUndefined(x) == IF isNaN(x) THEN undefined ELSE x

\* v || fallback
orElse(v, fallback) == IF v = 0 THEN fallback ELSE v

\* enrichCandlesWithIndicators(candles, config), lines 265-288; a frame is
\* the candle with the six indicator fields.
enrichCandlesWithIndicators(candles, config) ==
  IF Len(candles) = 0 THEN <<>>
  ELSE LET ema7 == calculateEMA(candles, 7)
           ema25 == calculateEMA(candles, 25)
           ema99 == calculateEMA(candles, 99)
           f == orElse(config.macdFast, 50)
           s == orElse(config.macdSlow, 150)
           sig == orElse(config.macdSignal, 9)
           macd == calculateMACD(candles, f, s, sig)
       IN [i \in 1..Len(candles) |->
             [time |-> candles[i].time,
              close |-> candles[i].close,
              ema7 |-> orUndefined(ema7[i]),
              ema25 |-> orUndefined(ema25[i]),
              ema99 |-> orUndefined(ema99[i]),
              macdLine |-> orUndefined(macd.macdLine[i]),
              macdSignal |-> orUndefined(macd.macdSignalLine[i]),
              macdHist |-> orUndefined(macd.macdHist[i])]]

\* The windows given to the engine: up to IndicatorWindow candles with
\* closes 1..MaxClose, one per time step.
Windows ==
  UNION {{[i \in 1..n |-> [time |-> i, close |-> c[i]]] : c \in [1..n -> 1..MaxClose]} :
           n \in 0..IndicatorWindow}

\* The periods the functions are called with.
Periods == 1..MaxPeriod

\* The MACD settings of a config; 0 stands for a missing or zero setting.
MacdConfigs ==
  [macdFast : 0..(MaxPeriod - 1), macdSlow : 0..(MaxPeriod - 1),
   macdSignal : 0..(MaxPeriod - 1)]

NoCalc == [fn |-> "none"]

\* ----------------------------------------------------------------- Init
\* The component as mounted: the default strategy alone, its window empty,
\* and the historical-data effect already run once.
AppInit ==
  /\ latestStrategiesRef = [i \in {DEFAULT_CONFIG.id} |-> NewRuntime(DEFAULT_CONFIG)]
  /\ activeStrategyId = DEFAULT_CONFIG.id
  /\ nextId = 1
  /\ inflight = historicalEffect([i \in {DEFAULT_CONFIG.id} |-> NewRuntime(DEFAULT_CONFIG)], {})
  /\ today = 1
  /\ ev = [op |-> "init"]
  /\ out = NoOut
  /\ adv = NoAdv
  /\ levelFires = [i \in Ids |-> NoFires]
  /\ webhooks = {}
  /\ sent = NoSent
  /\ nEvents = 0

\* No call of the indicator engine is followed.
IndicatorIdle ==
  /\ series = <<>>
  /\ calc = NoCalc

Init ==
  /\ AppInit
  /\ ServerInit
  /\ IndicatorIdle

\* --------------------------------------------------------------- handlers
\* Every handler counts against the length of the behaviour.
Budget ==
  /\ nEvents < MaxEvents
  /\ nEvents' = nEvents + 1
  /\ UNCHANGED serverVars
  /\ UNCHANGED indVars

\* ws.onmessage -> processGlobalRealtimeCandle(streamName, newCandle).
processGlobalRealtimeCandle(streamName, newCandle, sigs) ==
  /\ Budget
  /\ \E done \in {processLoop(SortedIds(DOMAIN latestStrategiesRef), 1,
                            [ref |-> latestStrategiesRef, out |-> NoOut, adv |-> NoAdv,
                             net |-> webhooks, sent |-> NoSent],
                            latestStrategiesRef, streamName, newCandle, sigs)} :
     /\ latestStrategiesRef' = done.ref
     /\ out' = done.out
     /\ webhooks' = done.net
     /\ sent' = done.sent
     /\ adv' = done.adv
     /\ levelFires' = [i \in Ids |-> countFires(levelFires[i], done.out[i], 1)]
     /\ inflight' = historicalEffect(done.ref, inflight)
     /\ ev' = [op |-> "applyBar", stream |-> streamName, candle |-> newCandle,
               sigs |-> sigs,
               repeated |-> /\ ev.op = "applyBar"
                            /\ ev.stream = streamName
                            /\ ev.candle = newCandle]
     /\ UNCHANGED <<activeStrategyId, nextId, today>>

\* updateStrategyConfig(id, updates), lines 97-122.
updateStrategyConfig(id, updates) ==
  /\ Budget
  /\ id \in DOMAIN latestStrategiesRef
  /\ LET oldRuntime == latestStrategiesRef[id]
         newConfig == [f \in DOMAIN oldRuntime.config |->
                         IF f \in DOMAIN updates THEN updates[f] ELSE oldRuntime.config[f]]
         shouldResetData ==
           \/ /\ "symbol" \in DOMAIN updates
              /\ updates.symbol # ""
              /\ updates.symbol # oldRuntime.config.symbol
           \/ /\ "interval" \in DOMAIN updates
              /\ updates.interval # ""
              /\ updates.interval # oldRuntime.config.interval
         newRuntime == [oldRuntime EXCEPT
                          !.config = newConfig,
                          !.candles = IF shouldResetData THEN <<>> ELSE @,
                          !.lastPrice = IF shouldResetData THEN 0 ELSE @]
         ref == [latestStrategiesRef EXCEPT ![id] = newRuntime]
     IN /\ latestStrategiesRef' = ref
        /\ inflight' = historicalEffect(ref, inflight)
  /\ ev' = [op |-> "updateConfig", id |-> id, updates |-> updates]
  /\ out' = NoOut
  /\ adv' = NoAdv
  /\ UNCHANGED <<activeStrategyId, nextId, today, levelFires, webhooks>>
  /\ sent' = NoSent

\* addStrategy, lines 124-139.
addStrategy ==
  /\ Budget
  /\ nextId <= MaxAdds
  /\ LET newId == nextId
         newConfig == [DEFAULT_CONFIG EXCEPT !.id = newId]
         ref == [i \in DOMAIN latestStrategiesRef \cup {newId} |->
                   IF i = newId THEN NewRuntime(newConfig) ELSE latestStrategiesRef[i]]
     IN /\ latestStrategiesRef' = ref
        /\ inflight' = historicalEffect(ref, inflight)
        /\ activeStrategyId' = newId
        /\ ev' = [op |-> "add", id |-> newId]
  /\ nextId' = nextId + 1
  /\ out' = NoOut
  /\ adv' = NoAdv
  /\ UNCHANGED <<today, levelFires, webhooks>>
  /\ sent' = NoSent

\* removeStrategy(id), lines 141-152.
removeStrategy(id) ==
  /\ Budget
  /\ id \in DOMAIN latestStrategiesRef
  /\ LET newStrategies == [i \in DOMAIN latestStrategiesRef \ {id} |-> latestStrategiesRef[i]]
         remainingIds == SortedIds(DOMAIN newStrategies)
     IN /\ latestStrategiesRef' = newStrategies
        /\ inflight' = historicalEffect(newStrategies, inflight)
        /\ activeStrategyId' =
             IF Len(remainingIds) > 0 /\ activeStrategyId = id
             THEN remainingIds[1] ELSE activeStrategyId
  /\ ev' = [op |-> "remove", id |-> id]
  /\ out' = NoOut
  /\ adv' = NoAdv
  /\ UNCHANGED <<nextId, today, levelFires, webhooks>>
  /\ sent' = NoSent

\* onSelectStrategy = setActiveStrategyId, line 383.
selectStrategy(id) ==
  /\ Budget
  /\ id \in DOMAIN latestStrategiesRef
  /\ id # activeStrategyId
  /\ activeStrategyId' = id
  /\ ev' = [op |-> "select", id |-> id]
  /\ out' = NoOut
  /\ adv' = NoAdv
  /\ UNCHANGED <<latestStrategiesRef, nextId, inflight, today, levelFires, webhooks>>
  /\ sent' = NoSent

\* (variant: the runtime is rebuilt with the config the fetch was started with)
loadedRuntime_StaleConfig(current, r, data) ==
  [current EXCEPT !.config = [@ EXCEPT !.symbol = r.symbol, !.interval = r.interval],
                  !.candles = data,
                  !.lastPrice = IF Len(data) > 0 THEN data[Len(data)].close ELSE 0]

\* (variant: the candles merged while the fetch was in flight are kept
\* behind the fetched ones)
loadedRuntime_KeepMerged(current, r, data) ==
  [current EXCEPT !.candles = data \o current.candles,
                  !.lastPrice = IF Len(data) > 0 THEN data[Len(data)].close ELSE 0]

\* Lines 166-170: the runtime now in the registry with the fetched window.
loadedRuntime(current, r, data) ==
  [current EXCEPT !.candles = data,
                  !.lastPrice = IF Len(data) > 0 THEN data[Len(data)].close ELSE 0]

\* (variant: the fetched window is written without looking the id up)
installFetched_Unguarded(ref, r, data) ==
  [i \in DOMAIN ref \cup {r.id} |->
     loadedRuntime(IF i \in DOMAIN ref THEN ref[i]
                   ELSE NewRuntime([DEFAULT_CONFIG EXCEPT !.id = r.id,
                                                          !.symbol = r.symbol,
                                                          !.interval = r.interval]),
                   r, IF i = r.id THEN data ELSE ref[i].candles)]

\* (variant: the fetched window goes to every instance of the request's
\* symbol and timeframe)
installFetched_SameKey(ref, r, data) ==
  [i \in DOMAIN ref |->
     IF r.id \in DOMAIN ref /\ ref[i].config.symbol = r.symbol
                            /\ ref[i].config.interval = r.interval
     THEN loadedRuntime(ref[i], r, data)
     ELSE ref[i]]

\* Lines 165-171: the registry after the fetch of request r resolved; the
\* result is dropped when the id is no longer registered.
installFetched(ref, r, data) ==
  IF r.id \in DOMAIN ref
  THEN [ref EXCEPT ![r.id] = loadedRuntime(@, r, data)]
  ELSE ref

\* The historical-data effect, second half (lines 159-173): the fetch of
\* request r resolves to data.
historicalLoaded(r, data) ==
  /\ Budget
  /\ r \in inflight
  /\ LET ref == installFetched(latestStrategiesRef, r, data)
     IN /\ latestStrategiesRef' = ref
        /\ inflight' = IF r.id \in DOMAIN latestStrategiesRef
                       THEN historicalEffect(ref, inflight \ {r})
                       ELSE inflight \ {r}
  /\ ev' = [op |-> "historical", id |-> r.id, req |-> r, data |-> data,
            merged |-> IF r.id \in DOMAIN latestStrategiesRef
                       THEN Len(latestStrategiesRef[r.id].candles) ELSE 0]
  /\ out' = NoOut
  /\ adv' = NoAdv
  /\ UNCHANGED <<activeStrategyId, nextId, today, levelFires, webhooks>>
  /\ sent' = NoSent

\* (variant: the division is made whatever the price)
manualQuantity_Unguarded(tradeAmount, price) == Frac(tradeAmount, price)

\* Lines 308 and 314: quantity = price > 0 ? tradeAmount / price : 0.
manualQuantity(tradeAmount, price) ==
  IF price > 0 THEN Frac(tradeAmount, price) ELSE Zero

\* (variant: a manual entry keeps the level-hit lists of the position before)
manualState_KeepHits(type, quantity, price, now, positionState) ==
  IF type = "FLAT" THEN INITIAL_POS_STATE
  ELSE [direction |-> type,
        initialQuantity |-> quantity,
        remainingQuantity |-> quantity,
        entryPrice |-> price,
        highestPrice |-> IF type = "LONG" THEN price ELSE 0,
        lowestPrice |-> IF type = "SHORT" THEN price ELSE 0,
        openTime |-> now,
        tpLevelsHit |-> positionState.tpLevelsHit,
        slLevelsHit |-> positionState.slLevelsHit]

\* (variant: the position left by a manual FLAT keeps its entry data)
manualState_KeepEntry(type, quantity, price, now, positionState) ==
  IF type = "FLAT"
  THEN [positionState EXCEPT !.direction = "FLAT", !.remainingQuantity = Zero]
  ELSE [direction |-> type,
        initialQuantity |-> quantity,
        remainingQuantity |-> quantity,
        entryPrice |-> price,
        highestPrice |-> IF type = "LONG" THEN price ELSE 0,
        lowestPrice |-> IF type = "SHORT" THEN price ELSE 0,
        openTime |-> now,
        tpLevelsHit |-> <<>>,
        slLevelsHit |-> <<>>]

\* Lines 340-357: the position a manual order leaves.
manualState(type, quantity, price, now, positionState) ==
  IF type = "FLAT" THEN INITIAL_POS_STATE
  ELSE [direction |-> type,
        initialQuantity |-> quantity,
        remainingQuantity |-> quantity,
        entryPrice |-> price,
        highestPrice |-> IF type = "LONG" THEN price ELSE 0,
        lowestPrice |-> IF type = "SHORT" THEN price ELSE 0,
        openTime |-> now,
        tpLevelsHit |-> <<>>,
        slLevelsHit |-> <<>>]

\* handleManualOrder(type), lines 293-370, on the active strategy.
handleManualOrder(type) ==
  /\ Budget
  /\ activeStrategyId \in DOMAIN latestStrategiesRef
  /\ LET activeStrategy == latestStrategiesRef[activeStrategyId]
         price == activeStrategy.lastPrice
         entry == type \in {"LONG", "SHORT"}
         quantity ==
           IF entry
           THEN manualQuantity(activeStrategy.config.tradeAmount, price)
           ELSE activeStrategy.positionState.remainingQuantity
         payload ==
           [action |-> CASE type = "LONG" -> "buy"
                         [] type = "SHORT" -> "sell"
                         [] OTHER -> IF activeStrategy.positionState.direction = "LONG"
                                     THEN "sell" ELSE "buy_to_cover",
            position |-> CASE type = "LONG" -> "long"
                           [] type = "SHORT" -> "short"
                           [] OTHER -> "flat",
            strategy_name |-> "Manual_Override",
            tp_level |-> ManualLabel,
            execution_price |-> price,
            execution_quantity |-> quantity]
         newState == manualState(type, quantity, price, today,
                                 activeStrategy.positionState)
         newStats ==
           IF type = "FLAT" THEN activeStrategy.tradeStats
           ELSE [activeStrategy.tradeStats EXCEPT !.dailyTradeCount = @ + 1]
         newRuntime == [activeStrategy EXCEPT !.positionState = newState,
                                              !.tradeStats = newStats]
         ref == [latestStrategiesRef EXCEPT ![activeStrategyId] = newRuntime]
     IN /\ entry => activeStrategy.tradeStats.dailyTradeCount < MaxCount
        /\ latestStrategiesRef' = ref
        /\ inflight' = historicalEffect(ref, inflight)
        /\ out' = [NoOut EXCEPT ![activeStrategyId] = <<payload>>]
        /\ webhooks' = sendWebhook(webhooks, <<payload>>, activeStrategyId, ref, nEvents)
        /\ sent' = [NoSent EXCEPT ![activeStrategyId] =
                      <<committed(ref, activeStrategyId, newState, newStats)>>]
        /\ levelFires' = [levelFires EXCEPT ![activeStrategyId] = NoFires]
  /\ ev' = [op |-> "manual", id |-> activeStrategyId, type |-> type,
            price |-> latestStrategiesRef[activeStrategyId].lastPrice]
  /\ adv' = NoAdv
  /\ UNCHANGED <<activeStrategyId, nextId, today>>

\* (variant: a failed fetch is issued again)
afterWebhook_Retry(net, w, ok) == IF ok THEN net \ {w} ELSE net

\* Lines 278-289: the awaited fetch settles; a rejection is caught and
\* logged to the console.
afterWebhook(net, w, ok) == net \ {w}

\* The fetch of webhook w resolves (ok) or rejects.
webhookSettled(w, ok) ==
  /\ Budget
  /\ w \in webhooks
  /\ webhooks' = afterWebhook(webhooks, w, ok)
  /\ ev' = [op |-> "webhook", w |-> w, ok |-> ok]
  /\ out' = NoOut
  /\ adv' = NoAdv
  /\ sent' = NoSent
  /\ UNCHANGED <<latestStrategiesRef, activeStrategyId, nextId, inflight, today, levelFires>>

\* Midnight of the local clock.
dayRollover ==
  /\ Budget
  /\ today < MaxDay
  /\ today' = today + 1
  /\ ev' = [op |-> "midnight"]
  /\ out' = NoOut
  /\ adv' = NoAdv
  /\ UNCHANGED <<latestStrategiesRef, activeStrategyId, nextId, inflight, levelFires, webhooks>>
  /\ sent' = NoSent

\* The streams of the WebSocket (lines 180-186): one per symbol and interval
\* of a registered strategy.
subscribedStreams ==
  {targetStream(latestStrategiesRef[i].config) : i \in DOMAIN latestStrategiesRef}

\* The entry condition has an outcome only where it is evaluated: on a FLAT
\* runtime the candle is routed to.
entryConsulted(i, streamName) ==
  /\ i \in DOMAIN latestStrategiesRef
  /\ targetStream(latestStrategiesRef[i].config) = streamName
  /\ latestStrategiesRef[i].positionState.direction = "FLAT"

\* The outcomes of the entry conditions evaluated by one candle event.
entryOutcomes(streamName) ==
  {sigs \in [Ids -> Sigs] :
     \A i \in Ids : sigs[i] # "NONE" => entryConsulted(i, streamName)}

Next ==
  \* (the exchange has no stream for an empty symbol)
  \/ \E streamName \in {st \in subscribedStreams : st[1] # ""} :
       \E sigs \in entryOutcomes(streamName), newCandle \in Candles :
         processGlobalRealtimeCandle(streamName, newCandle, sigs)
  \/ \E id \in Ids, updates \in ConfigUpdates : updateStrategyConfig(id, updates)
  \/ addStrategy
  \/ \E id \in Ids : removeStrategy(id)
  \/ \E id \in Ids : selectStrategy(id)
  \/ \E r \in inflight, data \in HistoricalData : historicalLoaded(r, data)
  \/ \E type \in {"LONG", "SHORT", "FLAT"} : handleManualOrder(type)
  \/ dayRollover
  \/ \E w \in webhooks, ok \in BOOLEAN : webhookSettled(w, ok)

Spec == Init /\ [][Next]_vars

\* ---------------------------------------------------- server process steps
ServerBudget ==
  /\ nServer < MaxServerEvents
  /\ nServer' = nServer + 1
  /\ UNCHANGED appVars
  /\ UNCHANGED indVars

\* initializeSystem, lines 36-87: the logs and the runners come back from the
\* store; without saved snapshots the default strategy is started.
initializeSystem ==
  /\ ServerBudget
  /\ ~up
  /\ LET savedLogs == store.logs
         savedSnapshots == store.strategies
         last(id) == CHOOSE k \in 1..Len(savedSnapshots) :
                       /\ savedSnapshots[k].config.id = id
                       /\ \A j \in 1..Len(savedSnapshots) :
                            savedSnapshots[j].config.id = id => j <= k
     IN /\ logs' = savedLogs
        /\ strategies' =
             IF Len(savedSnapshots) > 0
             THEN [id \in {savedSnapshots[k].config.id : k \in 1..Len(savedSnapshots)} |->
                     restoredRunner(savedSnapshots[last(id)])]
             ELSE [id \in {DEFAULT_CONFIG.id} |-> newRunner(DEFAULT_CONFIG)]
        /\ sev' = [op |-> "initializeSystem", restored |-> Len(savedSnapshots) > 0]
  /\ up' = TRUE
  /\ UNCHANGED store

\* setInterval(saveSystemState, 5000), lines 173-175.
periodicSave ==
  /\ ServerBudget
  /\ up
  /\ store' = saveSystemState(strategies, logs)
  /\ store' # store
  /\ sev' = [op |-> "save"]
  /\ UNCHANGED <<up, strategies, logs>>

\* cmd_update_config, lines 123-131; runner.updateConfig(newConfig) replaces
\* the config and forgets the last price of another symbol or timeframe.
cmd_update_config(id, updates) ==
  /\ ServerBudget
  /\ up
  /\ id \in DOMAIN strategies
  /\ LET runner == strategies[id]
         newConfig == [f \in DOMAIN runner.config |->
                         IF f \in DOMAIN updates THEN updates[f] ELSE runner.config[f]]
         reset == \/ newConfig.symbol # runner.config.symbol
                  \/ newConfig.interval # runner.config.interval
         runners == [strategies EXCEPT ![id] =
                       [runner EXCEPT !.config = newConfig,
                                      !.lastPrice = IF reset THEN 0 ELSE @]]
     IN /\ strategies' = runners
        /\ store' = saveSystemState(runners, logs)
  /\ sev' = [op |-> "cmd_update_config", id |-> id]
  /\ UNCHANGED <<up, logs>>

\* cmd_add_strategy, lines 134-151.
cmd_add_strategy ==
  /\ ServerBudget
  /\ up
  /\ \E newId \in Ids \ DOMAIN strategies :
       /\ newId # DEFAULT_CONFIG.id
       /\ LET newConfig == [DEFAULT_CONFIG EXCEPT !.id = newId]
              runners == [i \in DOMAIN strategies \cup {newId} |->
                            IF i = newId THEN newRunner(newConfig) ELSE strategies[i]]
          IN /\ strategies' = runners
             /\ store' = saveSystemState(runners, logs)
       /\ sev' = [op |-> "cmd_add_strategy", id |-> newId]
  /\ UNCHANGED <<up, logs>>

\* cmd_remove_strategy, lines 154-161.
cmd_remove_strategy(id) ==
  /\ ServerBudget
  /\ up
  /\ id \in DOMAIN strategies
  /\ LET runners == [i \in DOMAIN strategies \ {id} |-> strategies[i]]
     IN /\ strategies' = runners
        /\ store' = saveSystemState(runners, logs)
  /\ sev' = [op |-> "cmd_remove_strategy", id |-> id]
  /\ UNCHANGED <<up, logs>>

\* cmd_manual_order, lines 164-169; runner.handleManualOrder(type) makes the
\* manual transition at the last price and logs its action (onLog: addLog
\* and saveSystemState).
cmd_manual_order(id, type) ==
  /\ ServerBudget
  /\ up
  /\ id \in DOMAIN strategies
  /\ LET runner == strategies[id]
         entry == type \in {"LONG", "SHORT"}
         quantity == IF entry
                     THEN manualQuantity(runner.config.tradeAmount, runner.lastPrice)
                     ELSE runner.positionState.remainingQuantity
         newState == manualState(type, quantity, runner.lastPrice, today,
                                 runner.positionState)
         newStats == IF entry
                     THEN [runner.tradeStats EXCEPT !.dailyTradeCount = @ + 1]
                     ELSE runner.tradeStats
         runners == [strategies EXCEPT ![id] =
                       [runner EXCEPT !.positionState = newState, !.tradeStats = newStats]]
         lg == addLog(logs, <<[strategyId |-> id, tp_level |-> ManualLabel,
                               action |-> type]>>, 1)
     IN /\ entry => runner.tradeStats.dailyTradeCount < MaxCount
        /\ strategies' = runners
        /\ logs' = lg
        /\ store' = saveSystemState(runners, lg)
  /\ sev' = [op |-> "cmd_manual_order", id |-> id, type |-> type]
  /\ UNCHANGED up

\* A runner evaluates a candle of its stream: the runtime is replaced
\* (onUpdate only broadcasts), every action is logged (onLog: addLog and
\* saveSystemState).
runnerBar(id, close, sig) ==
  /\ ServerBudget
  /\ up
  /\ id \in DOMAIN strategies
  /\ sig # "NONE" => strategies[id].positionState.direction = "FLAT"
  /\ \E result \in {evaluateStrategy(<<[time |-> 1, close |-> close, isClosed |-> TRUE]>>,
                                      strategies[id].config, strategies[id].positionState,
                                      strategies[id].tradeStats, sig, today)} :
       LET runners == [strategies EXCEPT ![id] =
                         [@ EXCEPT !.positionState = result.newPositionState,
                                   !.tradeStats = result.newTradeStats,
                                   !.lastPrice = close]]
           lg == addLog(logs, [k \in 1..Len(result.actions) |->
                                 logOf(id, result.actions[k])], 1)
       IN /\ strategies' = runners
          /\ logs' = lg
          /\ store' = IF Len(result.actions) > 0
                      THEN saveSystemState(runners, lg) ELSE store
  /\ sev' = [op |-> "runnerBar", id |-> id]
  /\ UNCHANGED up

\* The process ends; what it held in memory is gone, the store stays.
crash ==
  /\ ServerBudget
  /\ up
  /\ up' = FALSE
  /\ strategies' = << >>
  /\ logs' = <<>>
  /\ sev' = [op |-> "crash"]
  /\ UNCHANGED store

ServerUpdates == {[symbol |-> "ETHUSDT"], [maxDailyTrades |-> 2]}

ServerNext ==
  \/ initializeSystem
  \/ periodicSave
  \/ \E id \in Ids, updates \in ServerUpdates : cmd_update_config(id, updates)
  \/ cmd_add_strategy
  \/ \E id \in Ids : cmd_remove_strategy(id)
  \/ \E id \in Ids, type \in {"LONG", "SHORT", "FLAT"} : cmd_manual_order(id, type)
  \/ \E id \in Ids, close \in Prices, sig \in Sigs : runnerBar(id, close, sig)
  \/ crash

ServerSpec == Init /\ [][ServerNext]_vars

\* ------------------------------------------------- indicator engine calls
\* The engine is a set of pure functions; a behaviour calls one of them on
\* the window and keeps what it returned.
IndicatorInit ==
  /\ AppInit
  /\ ServerInit
  /\ series \in Windows
  /\ calc = NoCalc

IndicatorStep ==
  /\ calc = NoCalc
  /\ UNCHANGED <<appVars, serverVars, series>>

CallEMA(period) ==
  /\ IndicatorStep
  /\ calc' = [fn |-> "calculateEMA", period |-> period,
              ema |-> calculateEMA(series, period)]

CallMACD(fast, slow, signal) ==
  /\ IndicatorStep
  /\ \E r \in {calculateMACD(series, fast, slow, signal)} :
       calc' = [fn |-> "calculateMACD", fast |-> fast, slow |-> slow, signal |-> signal,
                macdLine |-> r.macdLine, macdSignalLine |-> r.macdSignalLine,
                macdHist |-> r.macdHist]

CallEnrich(config) ==
  /\ IndicatorStep
  /\ calc' = [fn |-> "enrichCandlesWithIndicators", config |-> config,
              frames |-> enrichCandlesWithIndicators(series, config)]

IndicatorNext ==
  \/ \E period \in Periods : CallEMA(period)
  \/ \E fast \in Periods, slow \in Periods, signal \in Periods :
       CallMACD(fast, slow, signal)
  \/ \E config \in MacdConfigs : CallEnrich(config)

IndicatorSpec == IndicatorInit /\ [][IndicatorNext]_vars

\* ------------------------------------------------------------------ claims
Registered == DOMAIN latestStrategiesRef

NoDuplicates(s) == \A j \in 1..Len(s) : \A k \in 1..Len(s) : j # k => s[j] # s[k]

\* The symbol and the interval of runtime i are those of the stream name.
SubscribedTo(i, stream) ==
  /\ toLowerCase(latestStrategiesRef[i].config.symbol) = stream[1]
  /\ latestStrategiesRef[i].config.interval = stream[3]

\* C1: a candle event advances every registered strategy whose symbol and
\* interval are those of the event exactly once (one window merge, one rule
\* evaluation, one write of the registry), also when several strategies share
\* the stream, and advances no other strategy.
C1_AdvancedExactlyOnce ==
  ev.op = "applyBar" =>
    \A i \in Ids :
      IF i \in Registered /\ SubscribedTo(i, ev.stream)
      THEN adv[i].merges = 1 /\ adv[i].evals = 1 /\ adv[i].writes = 1
      ELSE adv[i].merges = 0 /\ adv[i].evals = 0 /\ adv[i].writes = 0

\* Two strategies on the same stream, both advanced by one candle event,
\* while the registry has seen a strategy on another stream.
C1_Witness ==
  /\ ev.op = "applyBar"
  /\ \E i \in Registered, j \in Registered :
       /\ i # j
       /\ SubscribedTo(i, ev.stream) /\ SubscribedTo(j, ev.stream)
       /\ adv[i].writes = 1 /\ adv[j].writes = 1

\* C2: when the same candle is applied twice in a row, the second application
\* emits no action for a take-profit or stop-loss level that is in the hit
\* lists committed by the first or that the first has fired, and emits no
\* entry if the first emitted one.
C2_SameBarTwice ==
  [][ (ev'.op = "applyBar" /\ ev'.repeated) =>
        \A i \in Registered : \A k \in 1..Len(out'[i]) :
          /\ ~InSeq(out'[i][k].tp_level, latestStrategiesRef[i].positionState.tpLevelsHit)
          /\ ~InSeq(out'[i][k].tp_level, latestStrategiesRef[i].positionState.slLevelsHit)
          /\ \A j \in 1..Len(out[i]) : out[i][j].tp_level # out'[i][k].tp_level
    ]_vars

\* The second of two equal candles met a position whose first take-profit
\* level the candle's close has passed and which is marked hit: evaluated,
\* nothing emitted.
C2_Witness ==
  /\ ev.op = "applyBar" /\ ev.repeated
  /\ \E i \in Registered :
       LET pos == latestStrategiesRef[i].positionState IN
       /\ adv[i].evals = 1
       /\ pos.direction = "LONG"
       /\ InSeq("tp1", pos.tpLevelsHit)
       /\ ev.candle.close * 100 >= pos.entryPrice * 105
       /\ out[i] = <<>>

\* C3: during one position every configured level fires at most once: its
\* id is at most once in tpLevelsHit / slLevelsHit, and at most one exit
\* action carries it between two entries.
C3_LevelFiresOnce ==
  \A i \in Ids :
    /\ \A l \in LevelIds : levelFires[i][l] <= 1
    /\ i \in Registered =>
         /\ NoDuplicates(latestStrategiesRef[i].positionState.tpLevelsHit)
         /\ NoDuplicates(latestStrategiesRef[i].positionState.slLevelsHit)

\* LONG from 100, the +5% level hit once, and a further candle at or beyond
\* 105 evaluated without any action.
C3_Witness ==
  /\ ev.op = "applyBar"
  /\ \E i \in Registered :
       LET pos == latestStrategiesRef[i].positionState IN
       /\ pos.direction = "LONG" /\ pos.entryPrice = 100
       /\ pos.tpLevelsHit = <<"tp1">>
       /\ levelFires[i]["tp1"] = 1
       /\ adv[i].evals = 1
       /\ ev.candle.close >= 105
       /\ out[i] = <<>>

\* C4 as stated: a candle event writes a strategy at most once and emits at
\* most one action for it.
C4_AtMostOneAction ==
  ev.op = "applyBar" =>
    \A i \in Ids : adv[i].writes <= 1 /\ Len(out[i]) <= 1

\* C4 as amended: a candle event writes a strategy at most once, and the
\* actions it emits for it are at most one per level or one entry (no two of
\* them carry the same level label).
C4_OneWriteOneActionPerLevel ==
  ev.op = "applyBar" =>
    \A i \in Ids :
      /\ adv[i].writes <= 1
      /\ \A j \in 1..Len(out[i]) : \A k \in 1..Len(out[i]) :
           j # k => out[i][j].tp_level # out[i][k].tp_level
      /\ \A j \in 1..Len(out[i]) : out[i][j].tp_level = "Entry" => Len(out[i]) = 1

\* One candle took a position across both take-profit levels: one write,
\* two exit actions.
C4_Witness ==
  /\ ev.op = "applyBar"
  /\ \E i \in Registered :
       /\ adv[i].writes = 1
       /\ Len(out[i]) = 2
       /\ out[i][1].tp_level = "tp1" /\ out[i][2].tp_level = "tp2"

IsPrefix(s, t) == Len(s) <= Len(t) /\ \A k \in 1..Len(s) : s[k] = t[k]

\* dailyTradeCount as it stands on the day of the evaluation.
CountOn(stats, date) == IF date # stats.lastTradeDate THEN 0 ELSE stats.dailyTradeCount

\* C5: the handlers are atomic with respect to each other on every strategy:
\* each builds on the runtime the previous handler committed and none
\* discards a committed config, positionState or tradeStats.  A completed
\* historical fetch keeps all three; a config update keeps positionState and
\* tradeStats and applies every given field and no other; a manual order
\* keeps the config and counts on from the committed dailyTradeCount; a
\* candle event keeps the config and continues the committed position.
C5_NoLostUpdate ==
  [][ \A i \in Registered :
        LET old == latestStrategiesRef[i]
            new == latestStrategiesRef'[i]
        IN
        /\ (ev'.op = "remove" /\ ev'.id = i) \/ i \in DOMAIN latestStrategiesRef'
        /\ ev'.op = "historical" =>
             /\ new.config = old.config
             /\ new.positionState = old.positionState
             /\ new.tradeStats = old.tradeStats
        /\ ev'.op = "updateConfig" =>
             /\ new.positionState = old.positionState
             /\ new.tradeStats = old.tradeStats
             /\ i # ev'.id => new.config = old.config
             /\ i = ev'.id =>
                  \A f \in DOMAIN old.config :
                    new.config[f] = IF f \in DOMAIN ev'.updates
                                    THEN ev'.updates[f] ELSE old.config[f]
        /\ ev'.op = "manual" =>
             /\ new.config = old.config
             /\ i # ev'.id => new = old
             /\ i = ev'.id =>
                  /\ new.tradeStats.lastTradeDate = old.tradeStats.lastTradeDate
                  /\ new.tradeStats.dailyTradeCount =
                       old.tradeStats.dailyTradeCount + (IF ev'.type = "FLAT" THEN 0 ELSE 1)
        /\ ev'.op = "applyBar" =>
             /\ new.config = old.config
             /\ ~SubscribedTo(i, ev'.stream) => new = old
             /\ SubscribedTo(i, ev'.stream) =>
                  /\ new.tradeStats.lastTradeDate = today
                  /\ new.tradeStats.dailyTradeCount \in
                       {CountOn(old.tradeStats, today), CountOn(old.tradeStats, today) + 1}
                  /\ old.positionState.direction # "FLAT" =>
                       \/ new.positionState = INITIAL_POS_STATE
                       \/ /\ new.positionState.direction = old.positionState.direction
                          /\ new.positionState.entryPrice = old.positionState.entryPrice
                          /\ new.positionState.initialQuantity = old.positionState.initialQuantity
                          /\ IsPrefix(old.positionState.tpLevelsHit, new.positionState.tpLevelsHit)
                          /\ IsPrefix(old.positionState.slLevelsHit, new.positionState.slLevelsHit)
                          /\ FracLeq(new.positionState.remainingQuantity,
                                     old.positionState.remainingQuantity)
        /\ ev'.op \in {"add", "remove", "select", "midnight"} /\ i \in DOMAIN latestStrategiesRef'
             => new = old
    ]_vars

\* A historical fetch completed on a strategy that, while the fetch was in
\* flight, opened a position and changed its symbol or interval.
C5_Witness ==
  /\ ev.op = "historical"
  /\ ev.id \in Registered
  /\ latestStrategiesRef[ev.id].positionState.direction # "FLAT"
  /\ latestStrategiesRef[ev.id].tradeStats.dailyTradeCount > 0
  /\ \/ latestStrategiesRef[ev.id].config.symbol # ev.req.symbol
     \/ latestStrategiesRef[ev.id].config.interval # ev.req.interval

\* C6: on every registered strategy remainingQuantity <= initialQuantity,
\* and direction = FLAT exactly when remainingQuantity = 0.
C6_QuantityInvariant ==
  \A i \in Registered :
    LET pos == latestStrategiesRef[i].positionState IN
    /\ FracLeq(pos.remainingQuantity, pos.initialQuantity)
    /\ pos.direction = "FLAT" <=> pos.remainingQuantity = Zero

\* C7: every window is strictly increasing by open time.
C7_WindowIncreasing ==
  \A i \in Registered :
    LET w == latestStrategiesRef[i].candles IN
    \A k \in 1..(Len(w) - 1) : w[k].time < w[k + 1].time

\* C8: a candle event leaves the incoming candle at the tail of the window
\* of every strategy it is routed to.  If the candle has the open time of
\* the previous tail, the length and all other candles are unchanged;
\* otherwise the window is the previous one with the candle appended, cut to
\* its newest WindowCap candles.  The window never exceeds WindowCap.
C8_MergeReplaceAppendCap ==
  [][ ev'.op = "applyBar" =>
        \A i \in Registered :
          SubscribedTo(i, ev'.stream) =>
            LET w == latestStrategiesRef[i].candles
                w2 == latestStrategiesRef'[i].candles
                c == ev'.candle
            IN /\ Len(w2) <= WindowCap
               /\ Len(w2) >= 1
               /\ w2[Len(w2)] = c
               /\ IF Len(w) > 0 /\ w[Len(w)].time = c.time
                  THEN /\ Len(w2) = Len(w)
                       /\ \A k \in 1..(Len(w) - 1) : w2[k] = w[k]
                  ELSE /\ Len(w2) = Min(Len(w) + 1, WindowCap)
                       /\ \A k \in 1..(Len(w2) - 1) : w2[k] = w[Len(w) + 1 - Len(w2) + k]
    ]_vars

\* A candle with a new open time was appended to a full window, which was
\* cut back to WindowCap.
C8_Witness ==
  /\ ev.op = "applyBar"
  /\ \E i \in Registered :
       /\ adv[i].merges = 1
       /\ adv[i].before = WindowCap
       /\ ~adv[i].replaced
       /\ Len(latestStrategiesRef[i].candles) = WindowCap
       /\ latestStrategiesRef[i].candles[WindowCap] = ev.candle

\* C9: a candle event changes no candle that is in a window with
\* isClosed = true: after the event it is in the window as it was, unless
\* the cap has cut it off.
C9_FinalImmutable ==
  [][ ev'.op = "applyBar" =>
        \A i \in Registered :
          LET w == latestStrategiesRef[i].candles
              w2 == latestStrategiesRef'[i].candles
          IN \A k \in 1..Len(w) :
               w[k].isClosed =>
                 \/ \E m \in 1..Len(w2) : w2[m] = w[k]
                 \/ k <= Len(w) + 1 - WindowCap
    ]_vars

\* C10: a candle event that enters from FLAT at close p > 0 commits
\* initialQuantity = remainingQuantity = tradeAmount / p, entryPrice = p,
\* empty hit lists, the day's dailyTradeCount plus one, and emits exactly
\* one action, the entry.
C10_AutomaticEntry ==
  [][ ev'.op = "applyBar" =>
        \A i \in Registered :
          (latestStrategiesRef[i].positionState.direction = "FLAT" /\ out'[i] # <<>>) =>
            LET old == latestStrategiesRef[i]
                new == latestStrategiesRef'[i]
                pos == new.positionState
                p == ev'.candle.close
            IN /\ p > 0
               /\ pos.direction \in {"LONG", "SHORT"}
               /\ pos.initialQuantity = pos.remainingQuantity
               /\ pos.initialQuantity.n * p = old.config.tradeAmount * pos.initialQuantity.d
               /\ pos.entryPrice = p
               /\ pos.tpLevelsHit = <<>> /\ pos.slLevelsHit = <<>>
               /\ new.tradeStats.dailyTradeCount = CountOn(old.tradeStats, today) + 1
               /\ Len(out'[i]) = 1
               /\ out'[i][1].tp_level = "Entry"
               /\ out'[i][1].action = (IF pos.direction = "LONG" THEN "buy" ELSE "sell")
               /\ out'[i][1].execution_price = p
               /\ out'[i][1].execution_quantity = pos.initialQuantity
    ]_vars

\* tradeAmount 1000 entered LONG at 100: quantity 10, remainingQuantity 10,
\* one entry action.
C10_Witness ==
  /\ ev.op = "applyBar"
  /\ \E i \in Registered :
       LET rt == latestStrategiesRef[i] IN
       /\ rt.config.tradeAmount = 1000
       /\ rt.positionState.direction = "LONG"
       /\ rt.positionState.entryPrice = 100
       /\ rt.positionState.initialQuantity = [n |-> 10, d |-> 1]
       /\ rt.positionState.remainingQuantity = [n |-> 10, d |-> 1]
       /\ rt.tradeStats.dailyTradeCount = 1
       /\ Len(out[i]) = 1 /\ out[i][1].tp_level = "Entry"

C12_DailyReset ==
  [][ ev'.op = "applyBar" =>
        \A i \in Registered :
          SubscribedTo(i, ev'.stream) =>
            LET old == latestStrategiesRef[i].tradeStats
                new == latestStrategiesRef'[i].tradeStats
                entered == IF out'[i] # <<>> /\ out'[i][1].tp_level = "Entry" THEN 1 ELSE 0
            IN /\ new.lastTradeDate = today
               /\ old.lastTradeDate # today => new.dailyTradeCount = entered
               /\ old.lastTradeDate = today =>
                    new.dailyTradeCount = old.dailyTradeCount + entered
    ]_vars

\* On the second day a trade has been counted, and a later candle of that
\* day has kept the count.
C12_Witness ==
  /\ ev.op = "applyBar"
  /\ today > INITIAL_STATS.lastTradeDate
  /\ \E i \in Registered :
       /\ adv[i].evals = 1
       /\ out[i] = <<>>
       /\ latestStrategiesRef[i].tradeStats = [dailyTradeCount |-> 1, lastTradeDate |-> today]

\* The one action of a manual order, tagged as a manual override.
ManualAction(i) ==
  /\ Len(out'[i]) = 1
  /\ out'[i][1].strategy_name = "Manual_Override"
  /\ out'[i][1].tp_level = ManualLabel

\* What a manual LONG or SHORT leaves apart from the quantity: the requested
\* side, entryPrice = lastPrice, empty hit lists, dailyTradeCount + 1.
ManualEntryFrame(i) ==
  LET old == latestStrategiesRef[i]
      pos == latestStrategiesRef'[i].positionState
  IN /\ pos.direction = ev'.type
     /\ pos.initialQuantity = pos.remainingQuantity
     /\ pos.entryPrice = old.lastPrice
     /\ pos.tpLevelsHit = <<>> /\ pos.slLevelsHit = <<>>
     /\ latestStrategiesRef'[i].tradeStats.dailyTradeCount = old.tradeStats.dailyTradeCount + 1
     /\ ManualAction(i)
     /\ out'[i][1].action = (IF ev'.type = "LONG" THEN "buy" ELSE "sell")
     /\ out'[i][1].execution_quantity = pos.initialQuantity

\* C13 as stated: every manual LONG or SHORT leaves
\* initialQuantity = tradeAmount / lastPrice (initialQuantity * lastPrice =
\* tradeAmount), whatever lastPrice is.
C13_ManualEntry ==
  [][ (ev'.op = "manual" /\ ev'.type \in {"LONG", "SHORT"}) =>
        LET old == latestStrategiesRef[ev'.id]
            pos == latestStrategiesRef'[ev'.id].positionState
        IN /\ ManualEntryFrame(ev'.id)
           /\ pos.initialQuantity.n * old.lastPrice = old.config.tradeAmount * pos.initialQuantity.d
    ]_vars

\* C13 as amended: a manual LONG or SHORT, from any direction and any
\* dailyTradeCount, leaves the requested side, entryPrice = lastPrice, empty
\* hit lists, dailyTradeCount + 1 and one action tagged as a manual override;
\* initialQuantity = remainingQuantity = tradeAmount / lastPrice when
\* lastPrice > 0, and 0 when lastPrice is 0.
C13_ManualEntryPriced ==
  [][ (ev'.op = "manual" /\ ev'.type \in {"LONG", "SHORT"}) =>
        LET old == latestStrategiesRef[ev'.id]
            pos == latestStrategiesRef'[ev'.id].positionState
        IN /\ ManualEntryFrame(ev'.id)
           /\ old.lastPrice > 0 =>
                /\ pos.initialQuantity.d > 0
                /\ pos.initialQuantity.n * old.lastPrice =
                     old.config.tradeAmount * pos.initialQuantity.d
           /\ old.lastPrice = 0 => pos.initialQuantity = Zero
    ]_vars

\* A manual entry at lastPrice 100 on a strategy that had already reached
\* its daily cap: quantity 10, dailyTradeCount beyond the cap.
C13_Witness ==
  /\ ev.op = "manual" /\ ev.type \in {"LONG", "SHORT"}
  /\ ev.price = 100
  /\ LET rt == latestStrategiesRef[ev.id] IN
     /\ rt.positionState.direction = ev.type
     /\ rt.positionState.initialQuantity = [n |-> 10, d |-> 1]
     /\ rt.positionState.entryPrice = 100
     /\ rt.tradeStats.dailyTradeCount > rt.config.maxDailyTrades
     /\ Len(out[ev.id]) = 1

\* C14: a manual FLAT on a LONG or SHORT position leaves INITIAL_POS_STATE,
\* leaves dailyTradeCount as it was, and emits one action whose
\* execution_quantity is the remainingQuantity held before, sell for a LONG
\* and buy_to_cover for a SHORT.
C14_ManualFlat ==
  [][ ( /\ ev'.op = "manual" /\ ev'.type = "FLAT"
        /\ latestStrategiesRef[ev'.id].positionState.direction # "FLAT" ) =>
        LET old == latestStrategiesRef[ev'.id]
            new == latestStrategiesRef'[ev'.id]
        IN /\ new.positionState = INITIAL_POS_STATE
           /\ new.tradeStats = old.tradeStats
           /\ ManualAction(ev'.id)
           /\ out'[ev'.id][1].execution_quantity = old.positionState.remainingQuantity
           /\ out'[ev'.id][1].position = "flat"
           /\ out'[ev'.id][1].action =
                (IF old.positionState.direction = "LONG" THEN "sell" ELSE "buy_to_cover")
    ]_vars

\* A manual FLAT closed the half of a LONG that a take-profit had left.
C14_Witness ==
  /\ ev.op = "manual" /\ ev.type = "FLAT"
  /\ latestStrategiesRef[ev.id].positionState = INITIAL_POS_STATE
  /\ latestStrategiesRef[ev.id].tradeStats.dailyTradeCount = 1
  /\ out[ev.id][1].action = "sell"
  /\ out[ev.id][1].execution_quantity = [n |-> 5, d |-> 1]

\* A quantity is a number: no division by zero has produced it.
Finite(q) == q.d > 0

\* C15: a manual entry at lastPrice <= 0 completes (the position and the
\* action are committed) with quantity 0, and no quantity in the registry
\* or in an action is the result of a division by zero.
C15_ZeroPriceQuantity ==
  /\ \A i \in Registered :
       /\ Finite(latestStrategiesRef[i].positionState.initialQuantity)
       /\ Finite(latestStrategiesRef[i].positionState.remainingQuantity)
       /\ \A k \in 1..Len(out[i]) : Finite(out[i][k].execution_quantity)
  /\ (ev.op = "manual" /\ ev.type \in {"LONG", "SHORT"} /\ ev.price <= 0) =>
       /\ latestStrategiesRef[ev.id].positionState.direction = ev.type
       /\ latestStrategiesRef[ev.id].positionState.initialQuantity = Zero
       /\ latestStrategiesRef[ev.id].positionState.remainingQuantity = Zero
       /\ Len(out[ev.id]) = 1
       /\ out[ev.id][1].execution_quantity = Zero

\* A manual SHORT issued before any candle or historical window has set
\* lastPrice.
C15_Witness ==
  /\ ev.op = "manual" /\ ev.type = "SHORT" /\ ev.price = 0
  /\ latestStrategiesRef[ev.id].candles = <<>>
  /\ latestStrategiesRef[ev.id].positionState.direction = "SHORT"
  /\ out[ev.id][1].execution_quantity = Zero

\* C16: a config update merges the given fields into the config; when the
\* symbol or the interval of the config has changed the window is empty and
\* lastPrice is 0 afterwards, otherwise both are as before; positionState
\* and tradeStats are as before and nothing is emitted.
C16_UpdateConfig ==
  [][ ev'.op = "updateConfig" =>
        LET old == latestStrategiesRef[ev'.id]
            new == latestStrategiesRef'[ev'.id]
            changed == \/ new.config.symbol # old.config.symbol
                       \/ new.config.interval # old.config.interval
        IN /\ \A f \in DOMAIN old.config :
                new.config[f] = IF f \in DOMAIN ev'.updates
                                THEN ev'.updates[f] ELSE old.config[f]
           /\ changed => new.candles = <<>> /\ new.lastPrice = 0
           /\ ~changed => new.candles = old.candles /\ new.lastPrice = old.lastPrice
           /\ new.positionState = old.positionState
           /\ new.tradeStats = old.tradeStats
           /\ out' = NoOut
    ]_vars

\* A fetch for the present symbol and interval of strategy i is under way:
\* its historical window has not been installed.
AwaitingBackfill(i) ==
  \E r \in inflight :
    /\ r.id = i
    /\ r.symbol = latestStrategiesRef[i].config.symbol
    /\ r.interval = latestStrategiesRef[i].config.interval

\* C17: a candle event emits nothing for a strategy whose historical window
\* has not been installed since its creation or its last window reset.
C17_SilentUntilBackfill ==
  [][ ev'.op = "applyBar" =>
        \A i \in Registered : AwaitingBackfill(i) => out'[i] = <<>>
    ]_vars

\* C18: every sendWebhook call of a candle event or of a manual order is
\* made when the registry already holds the positionState and tradeStats of
\* the transition that produced the action.
C18_DispatchAfterCommit ==
  \A i \in Ids : \A k \in 1..Len(sent[i]) : sent[i][k]

\* C19: the settling of a fetch, failed or not, leaves the registry as it
\* is, emits nothing and ends that fetch for good; fetches are started only
\* by the handlers, one for each action they emit.
C19_FailedDispatch ==
  [][ /\ ev'.op = "webhook" =>
           /\ latestStrategiesRef' = latestStrategiesRef
           /\ out' = NoOut
           /\ webhooks' = webhooks \ {ev'.w}
      /\ ev'.op # "webhook" =>
           /\ webhooks \subseteq webhooks'
           /\ \A i \in Ids :
                Cardinality({w \in webhooks' \ webhooks : w.id = i}) = Len(out'[i])
    ]_vars

\* The fetch of an entry action has failed; the position it announced is
\* held, and the fetch is not under way again.
C19_Witness ==
  /\ ev.op = "webhook" /\ ~ev.ok
  /\ ev.w \notin webhooks
  /\ ev.w.id \in Registered
  /\ latestStrategiesRef[ev.w.id].positionState.direction # "FLAT"
  /\ latestStrategiesRef[ev.w.id].tradeStats.dailyTradeCount = 1

\* C20: initializeSystem on saved snapshots gives every snapshot a runner
\* whose config, positionState and tradeStats are the snapshot's (getSnapshot
\* of the restored runner is the snapshot) and gives no other runner; the
\* logs are the saved logs, and nothing is saved anew.  Without a saved
\* snapshot the one runner is the default strategy, FLAT with zero
\* quantities, empty hit lists and dailyTradeCount 0.
C20_RestoreIdentity ==
  [][ sev'.op = "initializeSystem" =>
        /\ logs' = store.logs
        /\ store' = store
        /\ IF Len(store.strategies) > 0
           THEN /\ \A k \in 1..Len(store.strategies) :
                     LET sn == store.strategies[k] IN
                     /\ sn.config.id \in DOMAIN strategies'
                     /\ getSnapshot(strategies'[sn.config.id]) = sn
                /\ \A id \in DOMAIN strategies' :
                     \E k \in 1..Len(store.strategies) : store.strategies[k].config.id = id
           ELSE /\ DOMAIN strategies' = {DEFAULT_CONFIG.id}
                /\ strategies'[DEFAULT_CONFIG.id].config = DEFAULT_CONFIG
                /\ strategies'[DEFAULT_CONFIG.id].positionState = INITIAL_POS_STATE
                /\ strategies'[DEFAULT_CONFIG.id].tradeStats.dailyTradeCount = 0
    ]_vars

\* A restart brought back a strategy with an open position, a counted trade
\* and its log entry.
C20_Witness ==
  /\ sev.op = "initializeSystem" /\ sev.restored
  /\ \E id \in DOMAIN strategies :
       /\ strategies[id].positionState.direction # "FLAT"
       /\ strategies[id].positionState.remainingQuantity # Zero
       /\ strategies[id].tradeStats.dailyTradeCount = 1
  /\ Len(logs) = 1

\* ------------------------------------------------------------------- C21
\* The snapshots the store holds are those of the runners now in memory.
StoreCurrent == store.strategies = saveSystemState(strategies, logs).strategies

\* C21: after every state-changing event of a runner (add, remove, config
\* update, manual override, and an evaluation that changes positionState or
\* tradeStats) the store holds the snapshots of the state after the event.
C21_SaveAfterEvent ==
  [][\/ sev'.op \in {"cmd_update_config", "cmd_add_strategy",
                     "cmd_remove_strategy", "cmd_manual_order"}
     \/ /\ sev'.op = "runnerBar"
        /\ getSnapshot(strategies'[sev'.id]) # getSnapshot(strategies[sev'.id])
     => StoreCurrent']_vars

\* ------------------------------------------------------------------- C22
\* Ids are handed out in order and never again: i was registered and removed.
Removed(i) == i < nextId /\ i \notin DOMAIN latestStrategiesRef

\* C22: once an instance is removed, no later handler (bar, completion of a
\* fetch started before the removal, manual order, or any other) puts it back
\* into the registry, advances it, or sends an action on its behalf.
C22_RemovedStaysGone ==
  [][\A i \in Ids :
       Removed(i) =>
         /\ i \notin DOMAIN latestStrategiesRef'
         /\ out'[i] = <<>>
         /\ adv'[i] = NoAdvance
         /\ \A w \in webhooks' \ webhooks : w.id # i]_vars

\* The fetch of a removed instance has resolved.
C22_Witness ==
  /\ ev.op = "historical"
  /\ Removed(ev.id)
  /\ Len(ev.data) > 0

\* ------------------------------------------------------------------- C23
\* The handler that made the step was addressed to instance j: it named j,
\* or it was a candle of the stream j is subscribed to.
Addressed(j) ==
  \/ /\ ev'.op \in {"updateConfig", "add", "remove", "historical", "manual"}
     /\ ev'.id = j
  \/ /\ ev'.op = "applyBar"
     /\ routed(latestStrategiesRef[j], ev'.stream)

\* C23: a handler leaves the runtime (config, candles, positionState,
\* tradeStats, lastPrice) of every instance it is not addressed to as it
\* was; a candle changes only the instances of its symbol and timeframe, and
\* instances that started from INITIAL_POS_STATE do not move together.
C23_OthersUnchanged ==
  [][\A j \in DOMAIN latestStrategiesRef :
       ~Addressed(j) =>
         /\ j \in DOMAIN latestStrategiesRef'
         /\ latestStrategiesRef'[j] = latestStrategiesRef[j]]_vars

\* A candle opened a position in one instance while another instance, on
\* another stream, still holds the initial position state.
C23_Witness ==
  /\ ev.op = "applyBar"
  /\ \E i, j \in DOMAIN latestStrategiesRef :
       /\ routed(latestStrategiesRef[i], ev.stream)
       /\ adv[i].writes = 1
       /\ latestStrategiesRef[i].positionState.direction # "FLAT"
       /\ ~routed(latestStrategiesRef[j], ev.stream)
       /\ latestStrategiesRef[j].positionState = INITIAL_POS_STATE
       /\ adv[j] = NoAdvance

\* ------------------------------------------------------------------- C27
\* Request r was started for the symbol and timeframe instance r.id has now.
StillRequested(r) ==
  /\ r.id \in DOMAIN latestStrategiesRef
  /\ latestStrategiesRef[r.id].config.symbol = r.symbol
  /\ latestStrategiesRef[r.id].config.interval = r.interval

\* C27: the result of a fetch is installed only while the instance still has
\* the symbol and timeframe the fetch was started for; a result requested
\* before a change of symbol or timeframe leaves the window as it is.
C27_NoStaleBackfill ==
  [][/\ ev'.op = "historical"
     /\ ev'.id \in DOMAIN latestStrategiesRef
     /\ ~StillRequested(ev'.req)
     => latestStrategiesRef'[ev'.id].candles = latestStrategiesRef[ev'.id].candles]_vars

\* ------------------------------------------------------------------- C28
\* C28: after a manual LONG or SHORT, highestPrice and lowestPrice of the
\* new position both equal the entry price, which is the last known price.
C28_ManualExtremes ==
  [][/\ ev'.op = "manual"
     /\ ev'.type \in {"LONG", "SHORT"}
     => LET p == latestStrategiesRef'[ev'.id].positionState
        IN /\ p.entryPrice = latestStrategiesRef[ev'.id].lastPrice
           /\ p.highestPrice = p.entryPrice
           /\ p.lowestPrice = p.entryPrice]_vars

\* ------------------------------------------------------------------- C29
\* C29: the completion of a fetch makes the fetched candles the window of
\* the instance (candles merged meanwhile are gone) and sets lastPrice to
\* the last fetched close; config, positionState and tradeStats stay, no
\* rule is evaluated and no action is sent.
C29_BackfillFrame ==
  [][/\ ev'.op = "historical"
     /\ ev'.id \in DOMAIN latestStrategiesRef
     => LET old == latestStrategiesRef[ev'.id]
            new == latestStrategiesRef'[ev'.id]
        IN /\ new.candles = ev'.data
           /\ new.lastPrice = IF Len(ev'.data) > 0
                              THEN ev'.data[Len(ev'.data)].close ELSE 0
           /\ new.config = old.config
           /\ new.positionState = old.positionState
           /\ new.tradeStats = old.tradeStats
           /\ adv' = NoAdv
           /\ out' = NoOut
           /\ webhooks' = webhooks
           /\ levelFires' = levelFires]_vars

\* A fetch resolved with candles for an instance that had merged a candle
\* and opened a position while the fetch was in flight.
C29_Witness ==
  /\ ev.op = "historical"
  /\ ev.id \in DOMAIN latestStrategiesRef
  /\ ev.merged > 0
  /\ Len(ev.data) > 0
  /\ latestStrategiesRef[ev.id].candles = ev.data
  /\ latestStrategiesRef[ev.id].positionState.direction # "FLAT"

\* ------------------------------------------------------------------- C30
\* lastPrice of a runtime is the close of the last candle of its window, 0
\* for an empty window.
PriceOfWindow(rt) ==
  rt.lastPrice = IF Len(rt.candles) > 0 THEN rt.candles[Len(rt.candles)].close ELSE 0

\* The step gave instance i a new lastPrice out of data of the symbol and
\* timeframe i has: a candle of its stream, or the result of a fetch that
\* was started for them.
PriceFromOwnStream(i) ==
  \/ /\ ev'.op = "applyBar"
     /\ routed(latestStrategiesRef[i], ev'.stream)
     /\ latestStrategiesRef'[i].lastPrice = ev'.candle.close
  \/ /\ ev'.op = "historical"
     /\ ev'.id = i
     /\ StillRequested(ev'.req)
     /\ Len(ev'.data) > 0
     /\ latestStrategiesRef'[i].lastPrice = ev'.data[Len(ev'.data)].close

\* C30: in every reachable state lastPrice of every instance is the close of
\* the last candle of its window, 0 for an empty window; and it is always
\* the latest close seen for the symbol and timeframe the instance has, i.e.
\* it changes only to 0 or to a close of the instance's own stream.
C30_LastPriceIsLatestClose ==
  /\ [](\A i \in DOMAIN latestStrategiesRef : PriceOfWindow(latestStrategiesRef[i]))
  /\ [][\A i \in DOMAIN latestStrategiesRef \cap DOMAIN latestStrategiesRef' :
         latestStrategiesRef'[i].lastPrice # latestStrategiesRef[i].lastPrice
         => \/ latestStrategiesRef'[i].lastPrice = 0
            \/ PriceFromOwnStream(i)]_vars

\* ------------------------------------------------------------------- C24
\* Every entry of a result of calculateEMA / calculateMACD is NaN.
AllNaN(values) == \A i \in 1..Len(values) : isNaN(values[i])

\* C24: for a window shorter than the period every EMA value is undefined,
\* and so is every MACD value that depends on such an EMA (line, signal and
\* histogram; undefined, not 0); the engine returns one frame per candle of
\* the window, whatever its length.
C24_ShortWindowUndefined ==
  /\ calc.fn = "calculateEMA" =>
       /\ Len(calc.ema) = Len(series)
       /\ Len(series) < calc.period => AllNaN(calc.ema)
  /\ calc.fn = "calculateMACD" =>
       /\ Len(calc.macdLine) = Len(series)
       /\ Len(series) < Max(calc.fast, calc.slow) =>
            /\ AllNaN(calc.macdLine)
            /\ AllNaN(calc.macdSignalLine)
            /\ AllNaN(calc.macdHist)
  /\ calc.fn = "enrichCandlesWithIndicators" =>
       /\ Len(calc.frames) = Len(series)
       /\ \A i \in 1..Len(series) :
            LET frame == calc.frames[i]
            IN /\ frame.time = series[i].time
               /\ frame.close = series[i].close
               /\ Len(series) < 7 => frame.ema7 = undefined
               /\ Len(series) < 25 => frame.ema25 = undefined
               /\ Len(series) < 99 => frame.ema99 = undefined
               /\ Len(series) < Max(orElse(calc.config.macdFast, 50),
                                    orElse(calc.config.macdSlow, 150)) =>
                    /\ frame.macdLine = undefined
                    /\ frame.macdSignal = undefined
                    /\ frame.macdHist = undefined

\* calculateEMA was called with a period longer than a window that is not
\* empty.
C24_Witness ==
  /\ calc.fn = "calculateEMA"
  /\ Len(series) > 0
  /\ Len(series) < calc.period
  /\ Len(calc.ema) = Len(series)
  /\ isNaN(calc.ema[1])

\* ------------------------------------------------------------------- C25
\* close[1] + ... + close[n] of a window.
RECURSIVE SumOfCloses(_, _)
SumOfCloses(w, n) == IF n = 0 THEN 0 ELSE SumOfCloses(w, n - 1) + w[n].close

\* C25: for a window of at least P candles EMA(P) is undefined before
\* candle P, is the simple average of the first P closes at candle P, and
\* is close * k + previous EMA * (1 - k) with k = 2 / (P + 1) at every later
\* candle; EMA(3) of the closes 1, 2, 3, 4, 5 is undefined, undefined, 2, 3, 4.
C25_EmaRecurrence ==
  calc.fn = "calculateEMA" /\ Len(series) >= calc.period =>
    LET P == calc.period
        ema == calc.ema
    IN /\ Len(ema) = Len(series)
       /\ \A i \in 1..(P - 1) : isNaN(ema[i])
       /\ ~isNaN(ema[P])
       /\ ema[P].n * P * 1 = SumOfCloses(series, P) * ema[P].d
       /\ \A i \in (P + 1)..Len(series) :
            /\ ~isNaN(ema[i])
            \* ema[i] * (P + 1) = 2 * close[i] + (P - 1) * ema[i - 1]
            /\ ema[i].n * (P + 1) * ema[i - 1].d
                 = (2 * series[i].close * ema[i - 1].d + (P - 1) * ema[i - 1].n) * ema[i].d
       /\ (P = 3 /\ [i \in 1..Len(series) |-> series[i].close] = <<1, 2, 3, 4, 5>>)
            => ema = <<NaN, NaN, Num(2), Num(3), Num(4)>>

\* EMA(3) of the closes 1, 2, 3, 4, 5 has been computed.
C25_Witness ==
  /\ calc.fn = "calculateEMA"
  /\ calc.period = 3
  /\ [i \in 1..Len(series) |-> series[i].close] = <<1, 2, 3, 4, 5>>
  /\ calc.ema[3] = Num(2)
  /\ calc.ema[5] = Num(4)

\* ------------------------------------------------------------------- C26
\* The first candle at which the MACD line is defined, 0 when there is none.
FirstDefined(line) ==
  IF \E i \in 1..Len(line) : ~isNaN(line[i])
  THEN CHOOSE i \in 1..Len(line) : ~isNaN(line[i]) /\ \A j \in 1..(i - 1) : isNaN(line[j])
  ELSE 0

\* n[1]/d[1] + ... of the entries from..to of a sequence of fractions.
RECURSIVE SumOfValues(_, _, _)
SumOfValues(values, from, to) ==
  IF to < from THEN Zero ELSE FracAdd(SumOfValues(values, from, to - 1), values[to])

\* C26: at every candle the histogram is line - signal where both are
\* defined and undefined elsewhere; the signal is the EMA of the line taken
\* from the first candle where the line is defined: undefined before candle
\* (first + signal period - 1), the average of the first values there, the
\* EMA recurrence after it, and as long as the window.
C26_MacdSignalHistogram ==
  /\ calc.fn = "calculateMACD" =>
       LET line == calc.macdLine
           sig == calc.macdSignalLine
           hist == calc.macdHist
           g == calc.signal
           first == FirstDefined(line)
           seed == first + g - 1
       IN /\ Len(line) = Len(series)
          /\ Len(sig) = Len(series)
          /\ Len(hist) = Len(series)
          /\ \A i \in 1..Len(series) :
               IF isNaN(line[i]) \/ isNaN(sig[i])
               THEN isNaN(hist[i])
               ELSE hist[i] = FracSub(line[i], sig[i])
          /\ \A i \in 1..Len(series) :
               (first = 0 \/ i < seed) => isNaN(sig[i])
          /\ (first > 0 /\ seed <= Len(series)) =>
               /\ sig[seed] = numDiv(SumOfValues(line, first, seed), g)
               /\ \A i \in (seed + 1)..Len(series) :
                    sig[i] = FracAdd(FracMul(line[i], Frac(2, g + 1)),
                                     FracMul(sig[i - 1], Frac(g - 1, g + 1)))
  /\ calc.fn = "enrichCandlesWithIndicators" =>
       \A i \in 1..Len(calc.frames) :
         LET frame == calc.frames[i]
         IN IF frame.macdLine = undefined \/ frame.macdSignal = undefined
            THEN frame.macdHist = undefined
            ELSE frame.macdHist = FracSub(frame.macdLine, frame.macdSignal)

\* A MACD whose line is defined at a candle where the signal is not yet, and
\* whose histogram is defined and not 0 at a later one.
C26_Witness ==
  /\ calc.fn = "calculateMACD"
  /\ calc.signal > 1
  /\ \E i \in 1..Len(series) :
       /\ ~isNaN(calc.macdLine[i])
       /\ isNaN(calc.macdSignalLine[i])
       /\ isNaN(calc.macdHist[i])
  /\ \E i \in 1..Len(series) :
       /\ ~isNaN(calc.macdHist[i])
       /\ calc.macdHist[i] # Zero
       /\ calc.macdHist[i] = FracSub(calc.macdLine[i], calc.macdSignalLine[i])

====
